---- MODULE Spec2Model ----
(***************************************************************************)
(* CamMask-host: the HTTP request handlers of functions/index.js, each a   *)
(* sequence of Document Store / Blob Store round trips.  A request is a    *)
(* process: one action per store round trip, which performs the store      *)
(* call and runs the handler's synchronous code up to the next await.      *)
(***************************************************************************)
EXTENDS Integers, Sequences, FiniteSets, TLC

VARIABLES users, masks, ratings, comments, reports, blobs, clock, req

vars == <<users, masks, ratings, comments, reports, blobs, clock, req>>

(***************************************************************************)
(* Bounds of the model.                                                    *)
(***************************************************************************)
MaxClock == 2          \* the clock (new Date()) takes the values 0..MaxClock
MaxSeedMaskId == 3     \* ids of the masks the store holds at start
MaxAutoKey == 2        \* auto-generated document keys are 1..MaxAutoKey
MaxFiles == 2          \* file parts of one multipart upload
MaxSeedComments == 2   \* comments the store holds at start

Reqs == {"r1", "r2"}                \* the requests of one run
GoogleIds == {"u1", "u2"}
UserNames == {"A", "B"}
PhotoUrls == {"p", "undefined"}     \* "undefined": photoUrl absent from the body
MaskNames == {"A", "B"}
RatingValues == {3, 5}
CommentTexts == {"c"}
Methods == {"GET", "POST"}
AutoKeys == 1..MaxAutoKey

(***************************************************************************)
(* JavaScript values that the handlers convert or compare by type.         *)
(***************************************************************************)
Num(n) == <<"number", n>>
Str(n) == <<"string", n>>           \* the decimal numeral of n, as a string
Nil == <<"nil", 0>>                 \* "", null or undefined
\* String(v), v.toString()
String(v) == IF v[1] = "number" THEN Str(v[2]) ELSE v
\* x === "" || x == null
IsEmpty(v) == v[1] = "nil"

RECURSIVE Gcd(_, _)
Gcd(a, b) == IF b = 0 THEN a ELSE Gcd(b, a % b)
\* totalRating / ratingCount, a float: kept as a reduced fraction
\* (0 / 0 is NaN, <<0, 0>>)
Divide(total, count) ==
  LET g == Gcd(total, count) IN
  IF g = 0 THEN <<0, 0>> ELSE <<total \div g, count \div g>>
Zero == <<0, 1>>
FracLess(x, y) == x[1] * y[2] < y[1] * x[2]

(***************************************************************************)
(* The requests.                                                           *)
(***************************************************************************)
IdleReq == [op |-> "none", pc |-> "idle", a |-> [method |-> "GET"],
            l |-> [x |-> 0], log |-> {}, fault |-> FALSE, sends |-> <<>>]
NewReq(op, a) == [IdleReq EXCEPT !.op = op, !.pc = "start", !.a = a]

\* a plain-text body
Text(s) == [text |-> s]
\* res.status(status).send(body) / .json(body)
Send(q, status, body) ==
  [q EXCEPT !.sends = Append(@, [status |-> status, body |-> body])]
\* return: the handler ends
Return(q) == [q EXCEPT !.pc = "done"]
\* the end of a handler without try/catch: a send() after the response has
\* been sent throws, and nothing handles it
Finish(q) == [q EXCEPT !.pc = IF Len(q.sends) > 1 THEN "crashed" ELSE "done"]
At(q, pc) == [q EXCEPT !.pc = pc]
\* a store call issued on a collection
Logged(q, kind, coll) == [q EXCEPT !.log = @ \cup {<<kind, coll>>}]
Local(q, l) == [q EXCEPT !.l = l]
\* the store call rejects (the store is unavailable)
Faulted(q) == [q EXCEPT !.fault = TRUE]
\* a rejection no try/catch handles: the handler ends without responding
Unhandled(q) == [q EXCEPT !.pc = "crashed"]

Quiet(r) == req[r].pc \in {"idle", "done", "crashed"}
\* requests enter in the order r1, r2
CanStart(r) == /\ req[r].pc = "idle"
               /\ r = "r2" => req["r1"].pc # "idle"
\* one request at a time
Alone(r) == \A o \in Reqs \ {r} : Quiet(o)
\* the only request of a run
Single(r) == \A o \in Reqs : req[o].pc = "idle"
Answer(r) == req[r].sends[1]
Answered(r) == Len(req[r].sends) > 0
\* the request r takes a step
Steps(r) == req'[r] # req[r]

(***************************************************************************)
(* The Document Store.                                                     *)
(***************************************************************************)
\* a write that leaves the written document alone in its collection
SetDoc_Alone(coll, key, data) == [k \in {key} |-> data]

\* doc(key).set(data)
SetDoc(coll, key, data) ==
  [k \in DOMAIN coll \cup {key} |-> IF k = key THEN data ELSE coll[k]]
\* the keys of a collection in ascending order
RECURSIVE KeysAsc(_)
KeysAsc(S) ==
  IF S = {} THEN <<>>
  ELSE LET m == CHOOSE x \in S : \A y \in S : x <= y
       IN <<m>> \o KeysAsc(S \ {m})
FreeKeys(coll) == AutoKeys \ DOMAIN coll
EmptyColl == [k \in {} |-> 0]

UserDoc(googleId, name, photoUrl, canComment, canUpload, now) ==
  [id |-> googleId, name |-> name, photoUrl |-> photoUrl,
   canComment |-> canComment, canUpload |-> canUpload,
   creationDate |-> now, lastAccess |-> now]

(***************************************************************************)
(* createUser                                                              *)
(***************************************************************************)
createUser_validate(q) ==
  IF q.a.method # "POST" THEN Return(Send(q, 405, Text("Method not allowed")))
  ELSE IF q.a.googleId = "" THEN Return(Send(q, 400, Text("Missing googleId")))
  ELSE IF q.a.name = "" THEN Return(Send(q, 400, Text("Missing name")))
  ELSE At(Logged(q, "get", "users"), "cu_get")

createUser(r) ==
  /\ CanStart(r)
  /\ \E method \in Methods, googleId \in GoogleIds \cup {""},
        name \in UserNames \cup {""}, photoUrl \in PhotoUrls :
       req' = [req EXCEPT ![r] = createUser_validate(NewReq("createUser",
                 [method |-> method, googleId |-> googleId, name |-> name,
                  photoUrl |-> photoUrl]))]
  /\ UNCHANGED <<users, masks, ratings, comments, reports, blobs, clock>>

\* after `const user = await userRef.get()`: a duplicate is answered 400, and
\* the handler goes on to the set() call
createUser_exists(q, exists) ==
  LET q1 == IF exists THEN Send(q, 400, Text("User already exists")) ELSE q
      q2 == Local(q1, [exists |-> exists, now |-> clock])
  IN  IF q.a.photoUrl = "undefined"
      THEN Unhandled(q2)      \* set() rejects an undefined field value
      ELSE At(Logged(q2, "set", "users"), "cu_set")

createUser_get(r) ==
  /\ req[r].op = "createUser" /\ req[r].pc = "cu_get"
  /\ \/ req' = [req EXCEPT ![r] = Unhandled(Faulted(@))]
     \/ req' = [req EXCEPT ![r] = createUser_exists(@, @.a.googleId \in DOMAIN users)]
  /\ UNCHANGED <<users, masks, ratings, comments, reports, blobs, clock>>

\* a write that creates the record only when the store holds none
createUser_set_IfAbsent(r) ==
  /\ req[r].op = "createUser" /\ req[r].pc = "cu_set"
  /\ \/ /\ req' = [req EXCEPT ![r] = Unhandled(Faulted(@))]
        /\ UNCHANGED users
     \/ /\ users' = IF req[r].a.googleId \in DOMAIN users THEN users
                     ELSE SetDoc(users, req[r].a.googleId,
                            UserDoc(req[r].a.googleId, req[r].a.name,
                                    req[r].a.photoUrl, TRUE, TRUE, req[r].l.now))
        /\ req' = [req EXCEPT ![r] =
                     IF req[r].a.googleId \in DOMAIN users
                     THEN Finish(Send(@, 400, Text("User already exists")))
                     ELSE Finish(Send(@, 200, Text("User created")))]
  /\ UNCHANGED <<masks, ratings, comments, reports, blobs, clock>>

createUser_set(r) ==
  /\ req[r].op = "createUser" /\ req[r].pc = "cu_set"
  /\ \/ /\ req' = [req EXCEPT ![r] = Unhandled(Faulted(@))]
        /\ UNCHANGED users
     \/ /\ users' = SetDoc(users, req[r].a.googleId,
                       UserDoc(req[r].a.googleId, req[r].a.name, req[r].a.photoUrl,
                               TRUE, TRUE, req[r].l.now))
        /\ req' = [req EXCEPT ![r] = Finish(Send(@, 200, Text("User created")))]
  /\ UNCHANGED <<masks, ratings, comments, reports, blobs, clock>>

(***************************************************************************)
(* getUser                                                                 *)
(***************************************************************************)
getUser_validate(q) ==
  IF q.a.method # "GET" THEN Return(Send(q, 405, Text("Method not allowed")))
  ELSE IF q.a.googleId = "" THEN Return(Send(q, 400, Text("Missing googleId")))
  ELSE At(Logged(q, "get", "users"), "gu_get")

getUser(r) ==
  /\ CanStart(r)
  /\ \E method \in Methods, googleId \in GoogleIds \cup {""} :
       req' = [req EXCEPT ![r] = getUser_validate(NewReq("getUser",
                 [method |-> method, googleId |-> googleId]))]
  /\ UNCHANGED <<users, masks, ratings, comments, reports, blobs, clock>>

\* a getUser that answers 404 for an unknown googleId
getUser_found_404(q, exists, data) ==
  IF ~exists THEN Return(Send(q, 404, Text("User not found")))
  ELSE At(Logged(Local(q, [user |-> data, now |-> clock]), "update", "users"),
          "gu_update")

\* after `const user = await userRef.get()`
getUser_found(q, exists, data) ==
  IF ~exists THEN Return(Send(q, 200, [empty |-> TRUE]))
  ELSE At(Logged(Local(q, [user |-> data, now |-> clock]), "update", "users"),
          "gu_update")

getUser_get(r) ==
  /\ req[r].op = "getUser" /\ req[r].pc = "gu_get"
  /\ \/ req' = [req EXCEPT ![r] = Unhandled(Faulted(@))]
     \/ LET g == req[r].a.googleId IN
        req' = [req EXCEPT ![r] = getUser_found(@,
                  g \in DOMAIN users,
                  IF g \in DOMAIN users THEN users[g] ELSE [empty |-> TRUE])]
  /\ UNCHANGED <<users, masks, ratings, comments, reports, blobs, clock>>

\* an update that stamps creationDate as well
getUser_update_Stamp(r) ==
  /\ req[r].op = "getUser" /\ req[r].pc = "gu_update"
  /\ \/ /\ req' = [req EXCEPT ![r] = Unhandled(Faulted(@))]
        /\ UNCHANGED users
     \/ /\ users' = [users EXCEPT ![req[r].a.googleId].lastAccess = req[r].l.now,
                                   ![req[r].a.googleId].creationDate = req[r].l.now]
        /\ req' = [req EXCEPT ![r] = Return(Send(@, 200, [user |-> @.l.user]))]
  /\ UNCHANGED <<masks, ratings, comments, reports, blobs, clock>>

getUser_update(r) ==
  /\ req[r].op = "getUser" /\ req[r].pc = "gu_update"
  /\ \/ /\ req' = [req EXCEPT ![r] = Unhandled(Faulted(@))]
        /\ UNCHANGED users
     \/ /\ users' = [users EXCEPT ![req[r].a.googleId].lastAccess = req[r].l.now]
        /\ req' = [req EXCEPT ![r] = Return(Send(@, 200, [user |-> @.l.user]))]
  /\ UNCHANGED <<masks, ratings, comments, reports, blobs, clock>>

(***************************************************************************)
(* createMask                                                              *)
(***************************************************************************)
MaskDoc(id, maskUrl, name, images, uploaderGoogleId, now) ==
  [id |-> Num(id), maskUrl |-> maskUrl, maskName |-> name, description |-> "",
   images |-> images, tags |-> <<>>, uploaderGoogleId |-> uploaderGoogleId,
   averageRating |-> Zero, ratingsCount |-> 0, uploadedOn |-> now,
   lastAccessedOn |-> now, isRemoved |-> FALSE]

\* db.collection('masks').orderBy('id').get(): the id fields, ascending
MaskIdsAsc(coll) == KeysAsc({coll[k].id[2] : k \in DOMAIN coll})

\* let nextId = 0; snapshot.forEach(doc => { if (doc.id === nextId) nextId++ })
RECURSIVE ScanNextId(_, _)
ScanNextId(ids, nextId) ==
  IF ids = <<>> THEN nextId
  ELSE ScanNextId(Tail(ids), IF Head(ids) = nextId THEN nextId + 1 ELSE nextId)
\* an id assignment that counts from one
NextId_FromOne(ids) == ScanNextId(ids, 1)
\* an id assignment that takes the largest id plus one
NextId_MaxPlusOne(ids) == IF ids = <<>> THEN 0 ELSE ids[Len(ids)] + 1

NextId(ids) == ScanNextId(ids, 0)

createMask_validate(q) ==
  IF q.a.method # "POST" THEN Return(Send(q, 405, Text("Method not allowed")))
  ELSE IF q.a.maskUrl = "" THEN Return(Send(q, 400, Text("maskUrl is empty")))
  ELSE IF q.a.name = "" THEN Return(Send(q, 400, Text("name is empty")))
  ELSE IF q.a.uploaderGoogleId = ""
       THEN Return(Send(q, 400, Text("uploaderGoogleId is empty")))
  ELSE IF q.a.images = "" THEN Return(Send(q, 400, Text("images is empty")))
  ELSE At(Logged(q, "get", "users"), "cm_user")

\* the request bodies: the complete ones, and one per missing field; images is
\* "" (missing or empty string), "[]" (the empty list) or "[i]"
CreateMaskBodies ==
  LET ok == [method |-> "POST", maskUrl |-> "m", name |-> "A", images |-> "[i]",
             uploaderGoogleId |-> "u1"]
  IN  {[ok EXCEPT !.name = n, !.uploaderGoogleId = g] :
          n \in MaskNames, g \in GoogleIds}
      \cup {[ok EXCEPT !.method = "GET"], [ok EXCEPT !.maskUrl = ""],
            [ok EXCEPT !.name = ""], [ok EXCEPT !.uploaderGoogleId = ""],
            [ok EXCEPT !.images = ""], [ok EXCEPT !.images = "[]"]}

createMask(r) ==
  /\ CanStart(r)
  /\ \E a \in CreateMaskBodies :
       req' = [req EXCEPT ![r] = createMask_validate(NewReq("createMask", a))]
  /\ UNCHANGED <<users, masks, ratings, comments, reports, blobs, clock>>

\* catch (error): res.status(500).json({success: false, error: ...})
Caught(q) == Return(Send(Faulted(q), 500, Text("store error")))

\* a createMask that does not look at canUpload
createMask_uploader_NoPermission(q, exists, canUpload) ==
  IF ~exists THEN Return(Send(q, 404, Text("User not found")))
  ELSE At(Logged(q, "query", "masks"), "cm_scan")

\* after `await db.collection('users').doc(uploaderGoogleId).get()`
createMask_uploader(q, exists, canUpload) ==
  IF ~exists THEN Return(Send(q, 404, Text("User not found")))
  ELSE IF ~canUpload THEN Return(Send(q, 403, Text("User is not allowed to upload")))
  ELSE At(Logged(q, "query", "masks"), "cm_scan")

createMask_user(r) ==
  /\ req[r].op = "createMask" /\ req[r].pc = "cm_user"
  /\ \/ req' = [req EXCEPT ![r] = Caught(@)]
     \/ LET g == req[r].a.uploaderGoogleId IN
        req' = [req EXCEPT ![r] = createMask_uploader(@, g \in DOMAIN users,
                  IF g \in DOMAIN users THEN users[g].canUpload ELSE FALSE)]
  /\ UNCHANGED <<users, masks, ratings, comments, reports, blobs, clock>>

createMask_scan(r) ==
  /\ req[r].op = "createMask" /\ req[r].pc = "cm_scan"
  /\ \/ req' = [req EXCEPT ![r] = Caught(@)]
     \/ req' = [req EXCEPT ![r] = At(Logged(Local(@,
                  [nextId |-> NextId(MaskIdsAsc(masks)), now |-> clock]),
                  "set", "masks"), "cm_set")]
  /\ UNCHANGED <<users, masks, ratings, comments, reports, blobs, clock>>

createMask_set(r) ==
  /\ req[r].op = "createMask" /\ req[r].pc = "cm_set"
  /\ \/ /\ req' = [req EXCEPT ![r] = Caught(@)]
        /\ UNCHANGED masks
     \/ LET q == req[r] IN
        /\ masks' = SetDoc(masks, String(Num(q.l.nextId)),
                      MaskDoc(q.l.nextId, q.a.maskUrl, q.a.name, q.a.images,
                              q.a.uploaderGoogleId, q.l.now))
        /\ req' = [req EXCEPT ![r] =
                     Return(Send(@, 200, [success |-> TRUE, maskId |-> q.l.nextId]))]
  /\ UNCHANGED <<users, ratings, comments, reports, blobs, clock>>

(***************************************************************************)
(* getMask                                                                 *)
(***************************************************************************)
getMask_validate(q) ==
  IF q.a.method # "GET" THEN Return(Send(q, 405, Text("Method not allowed")))
  ELSE IF IsEmpty(q.a.maskId) THEN Return(Send(q, 400, Text("maskId is empty")))
  ELSE At(Logged(q, "get", "masks"), "gm_get")

\* a query string carries strings only
MaskIdQueries == {Str(n) : n \in 0..MaxSeedMaskId} \cup {Nil}

getMask(r) ==
  /\ CanStart(r)
  /\ \E method \in Methods, maskId \in MaskIdQueries :
       req' = [req EXCEPT ![r] = getMask_validate(NewReq("getMask",
                 [method |-> method, maskId |-> maskId]))]
  /\ UNCHANGED <<users, masks, ratings, comments, reports, blobs, clock>>

getMask_get(r) ==
  /\ req[r].op = "getMask" /\ req[r].pc = "gm_get"
  /\ \/ req' = [req EXCEPT ![r] = Caught(@)]
     \/ LET k == String(req[r].a.maskId) IN
        req' = [req EXCEPT ![r] =
                  IF k \notin DOMAIN masks
                  THEN Return(Send(@, 404, Text("Mask not found")))
                  ELSE Return(Send(@, 200, [mask |-> masks[k]]))]
  /\ UNCHANGED <<users, masks, ratings, comments, reports, blobs, clock>>

(***************************************************************************)
(* postRating                                                              *)
(***************************************************************************)
postRating_validate(q) ==
  IF q.a.method # "POST" THEN Return(Send(q, 405, Text("Method not allowed")))
  ELSE IF IsEmpty(q.a.maskId) THEN Return(Send(q, 400, Text("maskId is empty")))
  ELSE IF q.a.googleId = "" THEN Return(Send(q, 400, Text("googleId is empty")))
  ELSE IF IsEmpty(q.a.rating) THEN Return(Send(q, 400, Text("rating is empty")))
  ELSE At(Logged(q, "get", "masks"), "pr_mask")

\* a JSON body carries maskId as a number or as a string
RatedMaskIds == {Num(0), Str(0), Num(1), Str(1)}
PostRatingBodies ==
  LET ok == [method |-> "POST", maskId |-> Str(0), googleId |-> "u1",
             rating |-> Num(5)]
  IN  {[ok EXCEPT !.maskId = m, !.googleId = g, !.rating = Num(v)] :
          m \in RatedMaskIds, g \in GoogleIds, v \in RatingValues}
      \cup {[ok EXCEPT !.method = "GET"], [ok EXCEPT !.maskId = Nil],
            [ok EXCEPT !.googleId = ""], [ok EXCEPT !.rating = Nil]}

postRating(r) ==
  /\ CanStart(r)
  /\ \E a \in PostRatingBodies :
       req' = [req EXCEPT ![r] = postRating_validate(NewReq("postRating", a))]
  /\ UNCHANGED <<users, masks, ratings, comments, reports, blobs, clock>>

\* const maskDocId = String(maskId)
maskDocId(q) == String(q.a.maskId)

postRating_mask(r) ==
  /\ req[r].op = "postRating" /\ req[r].pc = "pr_mask"
  /\ \/ req' = [req EXCEPT ![r] = Caught(@)]
     \/ req' = [req EXCEPT ![r] =
                  IF maskDocId(@) \notin DOMAIN masks
                  THEN Return(Send(@, 404, Text("Mask not found")))
                  ELSE At(Logged(@, "get", "users"), "pr_user")]
  /\ UNCHANGED <<users, masks, ratings, comments, reports, blobs, clock>>

\* a user check that does not look at canComment
Commenter_NoPermission(q, exists, canComment, coll, pc) ==
  IF ~exists THEN Return(Send(q, 404, Text("User not found")))
  ELSE At(Logged(q, "query", coll), pc)

\* after `await db.collection('users').doc(googleId).get()`
Commenter(q, exists, canComment, coll, pc) ==
  IF ~exists THEN Return(Send(q, 404, Text("User not found")))
  ELSE IF ~canComment
       THEN Return(Send(q, 403, Text("User is not allowed to comment")))
  ELSE At(Logged(q, "query", coll), pc)

postRating_user(r) ==
  /\ req[r].op = "postRating" /\ req[r].pc = "pr_user"
  /\ \/ req' = [req EXCEPT ![r] = Caught(@)]
     \/ LET g == req[r].a.googleId IN
        req' = [req EXCEPT ![r] = Commenter(@, g \in DOMAIN users,
                  IF g \in DOMAIN users THEN users[g].canComment ELSE FALSE,
                  "ratings", "pr_query")]
  /\ UNCHANGED <<users, masks, ratings, comments, reports, blobs, clock>>

\* a lookup by mask alone
RatingsOf_AnyUser(coll, maskId, googleId) ==
  {k \in DOMAIN coll : coll[k].maskId = maskId}

\* where('maskId', '==', maskId).where('googleId', '==', googleId): the keys of
\* the rows whose fields equal the operands, in value and in type
RatingsOf(coll, maskId, googleId) ==
  {k \in DOMAIN coll : coll[k].maskId = maskId /\ coll[k].googleId = googleId}
\* where('maskId', '==', maskId)
RatingsOfMask(coll, maskId) == {k \in DOMAIN coll : coll[k].maskId = maskId}

\* the operand of the lookup for the caller's earlier rating
postRating_lookup(q) == q.a.maskId

\* ratingsSnapshot.docs[0].id, or 0 when the snapshot is empty
FirstKey(S) == IF S = {} THEN 0 ELSE KeysAsc(S)[1]

postRating_query(r) ==
  /\ req[r].op = "postRating" /\ req[r].pc = "pr_query"
  /\ \/ req' = [req EXCEPT ![r] = Caught(@)]
     \/ LET found == RatingsOf(ratings, postRating_lookup(req[r]), req[r].a.googleId)
        IN  req' = [req EXCEPT ![r] =
                      At(Logged(Local(@, [doc |-> FirstKey(found), now |-> clock]),
                                IF found # {} THEN "update" ELSE "add", "ratings"),
                         "pr_write")]
  /\ UNCHANGED <<users, masks, ratings, comments, reports, blobs, clock>>

RatingDoc(q) == [maskId |-> maskDocId(q), googleId |-> q.a.googleId,
                 rating |-> q.a.rating, postedOn |-> q.l.now]

\* doc(id).update({rating, postedOn}) or add(ratingData); add() keys the row
\* with a random id
postRating_write(r) ==
  /\ req[r].op = "postRating" /\ req[r].pc = "pr_write"
  /\ \/ /\ req' = [req EXCEPT ![r] = Caught(@)]
        /\ UNCHANGED ratings
     \/ /\ IF req[r].l.doc # 0
           THEN ratings' = [ratings EXCEPT ![req[r].l.doc].rating = req[r].a.rating,
                                           ![req[r].l.doc].postedOn = req[r].l.now]
           ELSE \E k \in FreeKeys(ratings) :
                  ratings' = SetDoc(ratings, k, RatingDoc(req[r]))
        /\ req' = [req EXCEPT ![r] = At(Logged(@, "query", "ratings"), "pr_scan")]
  /\ UNCHANGED <<users, masks, comments, reports, blobs, clock>>

RECURSIVE SumRatings(_, _)
SumRatings(coll, S) ==
  IF S = {} THEN 0
  ELSE LET k == CHOOSE x \in S : TRUE
       IN  coll[k].rating[2] + SumRatings(coll, S \ {k})

\* a rescan that filters on the maskId of the request as it was sent
postRating_scan_Raw(r) ==
  /\ req[r].op = "postRating" /\ req[r].pc = "pr_scan"
  /\ \/ req' = [req EXCEPT ![r] = Caught(@)]
     \/ LET rows == RatingsOfMask(ratings, req[r].a.maskId)
            ratingCount == Cardinality(rows)
            totalRating == SumRatings(ratings, rows)
        IN  req' = [req EXCEPT ![r] = At(Logged(Local(@,
                      [averageRating |-> Divide(totalRating, ratingCount),
                       ratingCount |-> ratingCount]), "update", "masks"),
                      "pr_maskupd")]
  /\ UNCHANGED <<users, masks, ratings, comments, reports, blobs, clock>>

postRating_scan(r) ==
  /\ req[r].op = "postRating" /\ req[r].pc = "pr_scan"
  /\ \/ req' = [req EXCEPT ![r] = Caught(@)]
     \/ LET rows == RatingsOfMask(ratings, maskDocId(req[r]))
            ratingCount == Cardinality(rows)
            totalRating == SumRatings(ratings, rows)
        IN  req' = [req EXCEPT ![r] = At(Logged(Local(@,
                      [averageRating |-> Divide(totalRating, ratingCount),
                       ratingCount |-> ratingCount]), "update", "masks"),
                      "pr_maskupd")]
  /\ UNCHANGED <<users, masks, ratings, comments, reports, blobs, clock>>

\* an aggregate write that counts the rows again as it writes
postRating_maskupd_Fresh(r) ==
  /\ req[r].op = "postRating" /\ req[r].pc = "pr_maskupd"
  /\ \/ /\ req' = [req EXCEPT ![r] = Caught(@)]
        /\ UNCHANGED masks
     \/ LET rows == RatingsOfMask(ratings, maskDocId(req[r])) IN
        /\ masks' = [masks EXCEPT
                       ![maskDocId(req[r])].averageRating =
                          Divide(SumRatings(ratings, rows), Cardinality(rows)),
                       ![maskDocId(req[r])].ratingsCount = Cardinality(rows)]
        /\ req' = [req EXCEPT ![r] = Return(Send(@, 200, [success |-> TRUE]))]
  /\ UNCHANGED <<users, ratings, comments, reports, blobs, clock>>

postRating_maskupd(r) ==
  /\ req[r].op = "postRating" /\ req[r].pc = "pr_maskupd"
  /\ \/ /\ req' = [req EXCEPT ![r] = Caught(@)]
        /\ UNCHANGED masks
     \/ /\ masks' = [masks EXCEPT
                       ![maskDocId(req[r])].averageRating = req[r].l.averageRating,
                       ![maskDocId(req[r])].ratingsCount = req[r].l.ratingCount]
        /\ req' = [req EXCEPT ![r] = Return(Send(@, 200, [success |-> TRUE]))]
  /\ UNCHANGED <<users, ratings, comments, reports, blobs, clock>>

(***************************************************************************)
(* getRating                                                               *)
(***************************************************************************)
getRating_validate(q) ==
  IF q.a.method # "GET" THEN Return(Send(q, 405, Text("Method not allowed")))
  ELSE IF IsEmpty(q.a.maskId) THEN Return(Send(q, 400, Text("maskId is empty")))
  ELSE IF q.a.googleId = "" THEN Return(Send(q, 400, Text("googleId is empty")))
  ELSE At(Logged(q, "get", "masks"), "gr_mask")

GetRatingQueries ==
  LET ok == [method |-> "GET", maskId |-> Str(0), googleId |-> "u1"]
  IN  {[ok EXCEPT !.maskId = Str(n), !.googleId = g] : n \in 0..1, g \in GoogleIds}
      \cup {[ok EXCEPT !.method = "POST"], [ok EXCEPT !.maskId = Nil],
            [ok EXCEPT !.googleId = ""]}

getRating(r) ==
  /\ CanStart(r)
  /\ \E a \in GetRatingQueries :
       req' = [req EXCEPT ![r] = getRating_validate(NewReq("getRating", a))]
  /\ UNCHANGED <<users, masks, ratings, comments, reports, blobs, clock>>

getRating_mask(r) ==
  /\ req[r].op = "getRating" /\ req[r].pc = "gr_mask"
  /\ \/ req' = [req EXCEPT ![r] = Caught(@)]
     \/ req' = [req EXCEPT ![r] =
                  IF maskDocId(@) \notin DOMAIN masks
                  THEN Return(Send(@, 404, Text("Mask not found")))
                  ELSE At(Logged(@, "get", "users"), "gr_user")]
  /\ UNCHANGED <<users, masks, ratings, comments, reports, blobs, clock>>

getRating_user(r) ==
  /\ req[r].op = "getRating" /\ req[r].pc = "gr_user"
  /\ \/ req' = [req EXCEPT ![r] = Caught(@)]
     \/ req' = [req EXCEPT ![r] =
                  IF @.a.googleId \notin DOMAIN users
                  THEN Return(Send(@, 404, Text("User not found")))
                  ELSE At(Logged(@, "query", "ratings"), "gr_query")]
  /\ UNCHANGED <<users, masks, ratings, comments, reports, blobs, clock>>

getRating_query(r) ==
  /\ req[r].op = "getRating" /\ req[r].pc = "gr_query"
  /\ \/ req' = [req EXCEPT ![r] = Caught(@)]
     \/ LET found == RatingsOf(ratings, req[r].a.maskId, req[r].a.googleId) IN
        req' = [req EXCEPT ![r] =
                  IF found = {}
                  THEN Return(Send(@, 404, Text("Rating not found")))
                  ELSE Return(Send(@, 200, [rating |-> ratings[FirstKey(found)]]))]
  /\ UNCHANGED <<users, masks, ratings, comments, reports, blobs, clock>>

(***************************************************************************)
(* getMasks                                                                *)
(***************************************************************************)
DefaultLimit == 6
SortFields == {"ratingsCount", "uploadedOn", "averageRating", "maskName"}
SortDirections == {"asc", "desc"}

\* parseInt(limit) || 6
ParseLimit(v) == IF IsEmpty(v) \/ v[2] = 0 THEN DefaultLimit ELSE v[2]
\* a fallback to another field
OrderField_UploadedOn(orderBy) ==
  IF orderBy \notin SortFields THEN "uploadedOn" ELSE orderBy

\* the field the query orders by
OrderField(orderBy) == IF orderBy \notin SortFields THEN "ratingsCount" ELSE orderBy
OrderDirection(orderDirection) ==
  IF orderDirection \notin SortDirections THEN "desc" ELSE orderDirection

\* the order of the store on the values of a field
NameRank(name) == IF name = "A" THEN 1 ELSE 2
FieldLess(field, x, y) ==
  IF field = "averageRating" THEN FracLess(x, y)
  ELSE IF field = "maskName" THEN NameRank(x) < NameRank(y)
  ELSE x < y
FieldOf(doc, field) ==
  IF field = "averageRating" THEN doc.averageRating
  ELSE IF field = "maskName" THEN doc.maskName
  ELSE IF field = "uploadedOn" THEN doc.uploadedOn
  ELSE doc.ratingsCount
\* a position in orderBy(field, direction): the field's value, then the
\* document key (the numerals below 10 order as their numbers)
Position(doc, key, field) == [value |-> FieldOf(doc, field), key |-> key]
Before(field, direction, p1, p2) ==
  LET lt(a, b) == \/ FieldLess(field, a.value, b.value)
                  \/ /\ a.value = b.value
                     /\ a.key[2] < b.key[2]
  IN  IF direction = "asc" THEN lt(p1, p2) ELSE lt(p2, p1)

\* the keys of S in the order of the query
RECURSIVE Ordered(_, _, _, _)
Ordered(coll, S, field, direction) ==
  IF S = {} THEN <<>>
  ELSE LET first == CHOOSE k \in S : \A o \in S \ {k} :
                      Before(field, direction, Position(coll[k], k, field),
                             Position(coll[o], o, field))
       IN  <<first>> \o Ordered(coll, S \ {first}, field, direction)

\* limit(n)
Limit(seq, n) == SubSeq(seq, 1, IF Len(seq) < n THEN Len(seq) ELSE n)

\* no startAfter()
NoCursor == [none |-> TRUE]

\* a getMasks that serves any method
getMasks_validate_AnyMethod(q) ==
  IF ~IsEmpty(q.a.lastId)
  THEN At(Logged(Local(q, [cursor |-> NoCursor]), "get", "masks"), "gms_last")
  ELSE At(Logged(Local(q, [cursor |-> NoCursor]), "query", "masks"), "gms_query")

getMasks_validate(q) ==
  IF q.a.method # "GET" THEN Return(Send(q, 405, Text("Method not allowed")))
  ELSE IF ~IsEmpty(q.a.lastId)
       THEN At(Logged(Local(q, [cursor |-> NoCursor]), "get", "masks"), "gms_last")
  ELSE At(Logged(Local(q, [cursor |-> NoCursor]), "query", "masks"), "gms_query")

GetMasksQueries ==
  [method : {"GET"}, limit : {Nil, Str(1)},
   orderBy : SortFields \cup {"bogus"},
   orderDirection : SortDirections \cup {"up"},
   lastId : {Nil, Str(0)}]
  \cup {[method |-> m, limit |-> Nil, orderBy |-> "", orderDirection |-> "",
          lastId |-> Nil] : m \in Methods}

getMasks(r) ==
  /\ CanStart(r)
  /\ \E a \in GetMasksQueries :
       req' = [req EXCEPT ![r] = getMasks_validate(NewReq("getMasks", a))]
  /\ UNCHANGED <<users, masks, ratings, comments, reports, blobs, clock>>

\* const lastDoc = await masksRef.doc(lastId).get(): startAfter(lastDoc)
\* when it exists
getMasks_last(r) ==
  /\ req[r].op = "getMasks" /\ req[r].pc = "gms_last"
  /\ \/ req' = [req EXCEPT ![r] = Caught(@)]
     \/ LET k == req[r].a.lastId
            field == OrderField(req[r].a.orderBy)
        IN  req' = [req EXCEPT ![r] = At(Logged(Local(@,
                      [cursor |-> IF k \in DOMAIN masks
                                  THEN Position(masks[k], k, field) ELSE NoCursor]),
                      "query", "masks"), "gms_query")]
  /\ UNCHANGED <<users, masks, ratings, comments, reports, blobs, clock>>

\* a cursor that starts after the value of the order field alone
getMasks_page_ByValue(coll, q) ==
  LET field == OrderField(q.a.orderBy)
      direction == OrderDirection(q.a.orderDirection)
      after == IF q.l.cursor = NoCursor THEN DOMAIN coll
               ELSE {k \in DOMAIN coll :
                       IF direction = "asc"
                       THEN FieldLess(field, q.l.cursor.value, FieldOf(coll[k], field))
                       ELSE FieldLess(field, FieldOf(coll[k], field), q.l.cursor.value)}
  IN  Limit(Ordered(coll, after, field, direction), ParseLimit(q.a.limit))

\* masksQuery.get(): the page, and the key of its last document
getMasks_page(coll, q) ==
  LET field == OrderField(q.a.orderBy)
      direction == OrderDirection(q.a.orderDirection)
      after == IF q.l.cursor = NoCursor THEN DOMAIN coll
               ELSE {k \in DOMAIN coll :
                       Before(field, direction, q.l.cursor,
                              Position(coll[k], k, field))}
  IN  Limit(Ordered(coll, after, field, direction), ParseLimit(q.a.limit))

getMasks_query(r) ==
  /\ req[r].op = "getMasks" /\ req[r].pc = "gms_query"
  /\ \/ req' = [req EXCEPT ![r] = Caught(@)]
     \/ LET page == getMasks_page(masks, req[r]) IN
        req' = [req EXCEPT ![r] = Return(Send(@, 200,
                  [masks |-> [i \in 1..Len(page) |-> masks[page[i]]],
                   lastId |-> IF page = <<>> THEN Nil ELSE page[Len(page)]]))]
  /\ UNCHANGED <<users, masks, ratings, comments, reports, blobs, clock>>

(***************************************************************************)
(* postComment                                                             *)
(***************************************************************************)
postComment_validate(q) ==
  IF q.a.method # "POST" THEN Return(Send(q, 405, Text("Method not allowed")))
  ELSE IF IsEmpty(q.a.maskId) THEN Return(Send(q, 400, Text("maskId is empty")))
  ELSE IF q.a.googleId = "" THEN Return(Send(q, 400, Text("googleId is empty")))
  ELSE IF q.a.comment = "" THEN Return(Send(q, 400, Text("comment is empty")))
  ELSE At(Logged(q, "get", "masks"), "pc_mask")

PostCommentBodies ==
  LET ok == [method |-> "POST", maskId |-> Str(0), googleId |-> "u1",
             comment |-> "c"]
  IN  {[ok EXCEPT !.maskId = m, !.googleId = g, !.comment = c] :
          m \in RatedMaskIds, g \in GoogleIds, c \in CommentTexts}
      \cup {[ok EXCEPT !.method = "GET"], [ok EXCEPT !.maskId = Nil],
            [ok EXCEPT !.googleId = ""], [ok EXCEPT !.comment = ""]}

postComment(r) ==
  /\ CanStart(r)
  /\ \E a \in PostCommentBodies :
       req' = [req EXCEPT ![r] = postComment_validate(NewReq("postComment", a))]
  /\ UNCHANGED <<users, masks, ratings, comments, reports, blobs, clock>>

postComment_mask(r) ==
  /\ req[r].op = "postComment" /\ req[r].pc = "pc_mask"
  /\ \/ req' = [req EXCEPT ![r] = Caught(@)]
     \/ req' = [req EXCEPT ![r] =
                  IF maskDocId(@) \notin DOMAIN masks
                  THEN Return(Send(@, 404, Text("Mask not found")))
                  ELSE At(Logged(@, "get", "users"), "pc_user")]
  /\ UNCHANGED <<users, masks, ratings, comments, reports, blobs, clock>>

postComment_user(r) ==
  /\ req[r].op = "postComment" /\ req[r].pc = "pc_user"
  /\ \/ req' = [req EXCEPT ![r] = Caught(@)]
     \/ LET g == req[r].a.googleId IN
        req' = [req EXCEPT ![r] = Commenter(@, g \in DOMAIN users,
                  IF g \in DOMAIN users THEN users[g].canComment ELSE FALSE,
                  "comments", "pc_scan")]
  /\ UNCHANGED <<users, masks, ratings, comments, reports, blobs, clock>>

\* the methods of a document reference; add() is a method of a collection
\* reference only
DocumentMethods == {"get", "set", "update", "create", "delete"}

\* db.collection('comments').orderBy('id').get(): the ids of the rows that
\* have an id field, ascending
CommentIdsAsc(coll) ==
  KeysAsc({coll[k].id[2] : k \in {x \in DOMAIN coll : "id" \in DOMAIN coll[x]}})

\* after the scan: db.collection('comments').doc(nextId.toString()).add(data)
\* is a call of a method the document reference does not have; the TypeError
\* goes to the handler's catch
postComment_add(q, nextId) ==
  IF "add" \in DocumentMethods
  THEN At(Logged(Local(q, [nextId |-> nextId, now |-> clock]), "add", "comments"),
          "pc_add")
  ELSE Return(Send(Local(q, [nextId |-> nextId, now |-> clock]), 500,
                   Text("TypeError")))

\* a comment that counts as a rating of its mask
postComment_scan_Counted(r) ==
  /\ req[r].op = "postComment" /\ req[r].pc = "pc_scan"
  /\ \/ /\ req' = [req EXCEPT ![r] = Caught(@)]
        /\ UNCHANGED masks
     \/ /\ req' = [req EXCEPT ![r] =
                     postComment_add(@, NextId(CommentIdsAsc(comments)))]
        /\ masks' = [masks EXCEPT ![maskDocId(req[r])].ratingsCount = @ + 1]
  /\ UNCHANGED <<users, ratings, comments, reports, blobs, clock>>

postComment_scan(r) ==
  /\ req[r].op = "postComment" /\ req[r].pc = "pc_scan"
  /\ \/ req' = [req EXCEPT ![r] = Caught(@)]
     \/ req' = [req EXCEPT ![r] = postComment_add(@, NextId(CommentIdsAsc(comments)))]
  /\ UNCHANGED <<users, masks, ratings, comments, reports, blobs, clock>>

(***************************************************************************)
(* getComments                                                             *)
(***************************************************************************)
getComments_validate(q) ==
  IF q.a.method # "GET" THEN Return(Send(q, 405, Text("Method not allowed")))
  ELSE IF IsEmpty(q.a.maskId) THEN Return(Send(q, 400, Text("maskId is empty")))
  ELSE At(Logged(q, "get", "masks"), "gc_mask")

getComments(r) ==
  /\ CanStart(r)
  /\ \E method \in Methods, maskId \in {Str(0), Str(1), Nil} :
       req' = [req EXCEPT ![r] = getComments_validate(NewReq("getComments",
                 [method |-> method, maskId |-> maskId]))]
  /\ UNCHANGED <<users, masks, ratings, comments, reports, blobs, clock>>

getComments_mask(r) ==
  /\ req[r].op = "getComments" /\ req[r].pc = "gc_mask"
  /\ \/ req' = [req EXCEPT ![r] = Caught(@)]
     \/ req' = [req EXCEPT ![r] =
                  IF @.a.maskId \notin DOMAIN masks
                  THEN Return(Send(@, 404, Text("Mask not found")))
                  ELSE At(Logged(@, "query", "comments"), "gc_query")]
  /\ UNCHANGED <<users, masks, ratings, comments, reports, blobs, clock>>

\* an ascending order
RECURSIVE CommentsAsc(_, _)
CommentsAsc(coll, S) ==
  IF S = {} THEN <<>>
  ELSE LET first == CHOOSE k \in S : \A o \in S \ {k} :
                      \/ coll[k].postedOn < coll[o].postedOn
                      \/ coll[k].postedOn = coll[o].postedOn /\ k < o
       IN  <<coll[first]>> \o CommentsAsc(coll, S \ {first})

\* where('maskId', '==', maskId).orderBy('postedOn', 'desc'): the later
\* postedOn first, and among equal postedOn the greater key first
RECURSIVE CommentsDesc(_, _)
CommentsDesc(coll, S) ==
  IF S = {} THEN <<>>
  ELSE LET first == CHOOSE k \in S : \A o \in S \ {k} :
                      \/ coll[k].postedOn > coll[o].postedOn
                      \/ coll[k].postedOn = coll[o].postedOn /\ k > o
       IN  <<coll[first]>> \o CommentsDesc(coll, S \ {first})

CommentsOfMask(coll, maskId) == {k \in DOMAIN coll : coll[k].maskId = maskId}

getComments_query(r) ==
  /\ req[r].op = "getComments" /\ req[r].pc = "gc_query"
  /\ \/ req' = [req EXCEPT ![r] = Caught(@)]
     \/ req' = [req EXCEPT ![r] = Return(Send(@, 200,
                  [comments |-> CommentsDesc(comments,
                                   CommentsOfMask(comments, @.a.maskId))]))]
  /\ UNCHANGED <<users, masks, ratings, comments, reports, blobs, clock>>

(***************************************************************************)
(* postReport                                                              *)
(***************************************************************************)
\* a postReport that looks the reported mask up
postReport_validate_Checked(q) ==
  IF q.a.method # "POST" THEN Return(Send(q, 405, Text("Method not allowed")))
  ELSE IF q.a.reportedItemType = ""
       THEN Return(Send(q, 400, Text("reportedItemType is empty")))
  ELSE IF IsEmpty(q.a.reportedItemId)
       THEN Return(Send(q, 400, Text("reportedItemId is empty")))
  ELSE IF q.a.reporterGoogleId = ""
       THEN Return(Send(q, 400, Text("reporterGoogleId is empty")))
  ELSE IF q.a.reason = "" THEN Return(Send(q, 400, Text("reason is empty")))
  ELSE IF String(q.a.reportedItemId) \notin DOMAIN masks
       THEN Return(Send(Logged(q, "get", "masks"), 404, Text("Item not found")))
  ELSE At(Logged(Local(q, [now |-> clock]), "add", "reports"), "rp_add")

postReport_validate(q) ==
  IF q.a.method # "POST" THEN Return(Send(q, 405, Text("Method not allowed")))
  ELSE IF q.a.reportedItemType = ""
       THEN Return(Send(q, 400, Text("reportedItemType is empty")))
  ELSE IF IsEmpty(q.a.reportedItemId)
       THEN Return(Send(q, 400, Text("reportedItemId is empty")))
  ELSE IF q.a.reporterGoogleId = ""
       THEN Return(Send(q, 400, Text("reporterGoogleId is empty")))
  ELSE IF q.a.reason = "" THEN Return(Send(q, 400, Text("reason is empty")))
  ELSE At(Logged(Local(q, [now |-> clock]), "add", "reports"), "rp_add")

PostReportBodies ==
  LET ok == [method |-> "POST", reportedItemType |-> "mask",
             reportedItemId |-> Str(0), reporterGoogleId |-> "u1", reason |-> "r"]
  IN  {[ok EXCEPT !.reportedItemType = t, !.reportedItemId = i,
                  !.reporterGoogleId = g] :
          t \in {"mask", "comment"}, i \in {Num(0), Str(0), Str(1), Str(2)},
          g \in GoogleIds}
      \cup {[ok EXCEPT !.method = "GET"], [ok EXCEPT !.reportedItemType = ""],
            [ok EXCEPT !.reportedItemId = Nil],
            [ok EXCEPT !.reporterGoogleId = ""], [ok EXCEPT !.reason = ""]}

postReport(r) ==
  /\ CanStart(r)
  /\ \E a \in PostReportBodies :
       req' = [req EXCEPT ![r] = postReport_validate(NewReq("postReport", a))]
  /\ UNCHANGED <<users, masks, ratings, comments, reports, blobs, clock>>

ReportDoc(q) ==
  [reportedItemType |-> q.a.reportedItemType, reportedItemId |-> q.a.reportedItemId,
   reporterGoogleId |-> q.a.reporterGoogleId, reason |-> q.a.reason,
   description |-> "", reportedOn |-> q.l.now]

postReport_add(r) ==
  /\ req[r].op = "postReport" /\ req[r].pc = "rp_add"
  /\ \/ /\ req' = [req EXCEPT ![r] = Caught(@)]
        /\ UNCHANGED reports
     \/ /\ \E k \in FreeKeys(reports) :
             reports' = SetDoc(reports, k, ReportDoc(req[r]))
        /\ req' = [req EXCEPT ![r] = Return(Send(@, 200, [success |-> TRUE]))]
  /\ UNCHANGED <<users, masks, ratings, comments, blobs, clock>>

(***************************************************************************)
(* uploadFile                                                              *)
(***************************************************************************)
\* limits: {fileSize: 100 * 1024 * 1024}
FileSizeLimit == 100 * 1024 * 1024
FileSizes == {1, FileSizeLimit, FileSizeLimit + 1}
\* the multipart parser ends a file stream at limits.fileSize: it marks the
\* stream truncated and drops the rest of the part, and raises no error
Streamed(size) == IF size > FileSizeLimit THEN FileSizeLimit ELSE size
\* catch (error): error.code === 'LIMIT_FILE_SIZE' ? 413 : 500
UploadErrorStatus(code) == IF code = "LIMIT_FILE_SIZE" THEN 413 ELSE 500

\* the request bodies: the sizes of the file parts, or a body the parser
\* rejects
UploadBodies ==
  {[method |-> m, malformed |-> FALSE, files |-> f] :
      m \in Methods, f \in UNION {[1..n -> FileSizes] : n \in 0..MaxFiles}}
  \cup {[method |-> "POST", malformed |-> TRUE, files |-> <<>>]}

uploadFile_parse(q) ==
  IF q.a.method # "POST" THEN Return(Send(q, 405, Text("Method not allowed")))
  ELSE IF q.a.malformed
       THEN Return(Send(q, UploadErrorStatus("parse"), Text("Error uploading file")))
  ELSE At(Local(q, [stage |-> [i \in 1..Len(q.a.files) |-> "write"],
                    error |-> "none"]), "uf_wait")

uploadFile(r) ==
  /\ CanStart(r)
  /\ \E a \in UploadBodies :
       req' = [req EXCEPT ![r] = uploadFile_parse(NewReq("uploadFile", a))]
  /\ UNCHANGED <<users, masks, ratings, comments, reports, blobs, clock>>

\* the stages of one file part: the temporary file, bucket.upload(),
\* makePublic(), getDownloadURL()
NextStage(stage) ==
  IF stage = "write" THEN "upload"
  ELSE IF stage = "upload" THEN "public"
  ELSE IF stage = "public" THEN "url"
  ELSE "ok"
\* reject(error): Promise.all keeps the first rejection
Rejected(q, i, code) ==
  Faulted([q EXCEPT !.l.stage[i] = "failed",
                    !.l.error = IF @ = "none" THEN code ELSE @])

\* the pipeline of file part i advances; nothing stops it when the request
\* has been answered
uploadFile_pipe(r, i) ==
  /\ req[r].op = "uploadFile" /\ req[r].pc \in {"uf_wait", "done"}
  /\ req[r].a.method = "POST" /\ ~req[r].a.malformed
  /\ i \in 1..Len(req[r].a.files)
  /\ req[r].l.stage[i] \in {"write", "upload", "public", "url"}
  /\ LET stage == req[r].l.stage[i] IN
     \/ /\ req' = [req EXCEPT ![r] =
                     Rejected(@, i, IF stage = "write" THEN "ENOSPC" ELSE "storage")]
        /\ UNCHANGED blobs
     \/ /\ req' = [req EXCEPT ![r].l.stage[i] = NextStage(stage),
                              ![r].log = IF stage = "write" THEN @
                                         ELSE @ \cup {<<stage, "blobs">>}]
        /\ blobs' = IF stage = "upload"
                    THEN SetDoc(blobs, <<r, i>>,
                           [size |-> Streamed(req[r].a.files[i]), public |-> FALSE])
                    ELSE IF stage = "public"
                    THEN [blobs EXCEPT ![<<r, i>>].public = TRUE]
                    ELSE blobs
  /\ UNCHANGED <<users, masks, ratings, comments, reports, clock>>

\* a response that waits for the first pipeline only
uploadFile_respond_First(r) ==
  /\ req[r].op = "uploadFile" /\ req[r].pc = "uf_wait"
  /\ \/ /\ req[r].l.error # "none"
        /\ req' = [req EXCEPT ![r] = Return(Send(@, UploadErrorStatus(@.l.error),
                                                 Text("Error uploading file")))]
     \/ /\ \/ req[r].a.files = <<>>
           \/ \E i \in 1..Len(req[r].a.files) : req[r].l.stage[i] = "ok"
        /\ req' = [req EXCEPT ![r] = Return(Send(@, 200,
                     [files |-> [i \in 1..Len(@.a.files) |-> <<r, i>>]]))]
  /\ UNCHANGED <<users, masks, ratings, comments, reports, blobs, clock>>

\* const result = await uploadComplete
uploadFile_respond(r) ==
  /\ req[r].op = "uploadFile" /\ req[r].pc = "uf_wait"
  /\ \/ /\ req[r].l.error # "none"
        /\ req' = [req EXCEPT ![r] = Return(Send(@, UploadErrorStatus(@.l.error),
                                                 Text("Error uploading file")))]
     \/ /\ \A i \in 1..Len(req[r].a.files) : req[r].l.stage[i] = "ok"
        /\ req' = [req EXCEPT ![r] = Return(Send(@, 200,
                     [files |-> [i \in 1..Len(@.a.files) |-> <<r, i>>]]))]
  /\ UNCHANGED <<users, masks, ratings, comments, reports, blobs, clock>>

(***************************************************************************)
(* The clock: new Date() between two handler steps.                        *)
(***************************************************************************)
Tick ==
  /\ clock < MaxClock
  /\ clock' = clock + 1
  /\ UNCHANGED <<users, masks, ratings, comments, reports, blobs, req>>

(***************************************************************************)
(* The store at start.  Users and masks are documents as createUser and    *)
(* createMask write them, stamped at time 0; canComment and canUpload are  *)
(* flags an administrator edits in the store.                              *)
(***************************************************************************)
UserSeeds ==
  {[g \in D |-> IF g = "u1" THEN UserDoc("u1", "A", "p", TRUE, TRUE, 0)
                ELSE UserDoc("u2", "A", "p", cc, ~cc, 0)] :
     D \in SUBSET GoogleIds, cc \in BOOLEAN}

\* the mask documents of ids S; the names do not follow the ids
SeedMask(n) == MaskDoc(n, "m", IF n % 2 = 0 THEN "B" ELSE "A", "[i]", "u1", 0)
MasksOf(S) == [k \in {Str(n) : n \in S} |-> SeedMask(k[2])]
\* any set of ids: documents can be removed in the store's console
MaskSeeds == {MasksOf(S) : S \in SUBSET (0..MaxSeedMaskId)}
\* the sets of ids that createMask alone produces
DenseMaskSeeds == {MasksOf(0..(n - 1)) : n \in 0..(MaxSeedMaskId + 1)}

NoRequests == [r \in Reqs |-> IdleReq]

InitUsers ==
  /\ users \in UserSeeds
  /\ masks = EmptyColl /\ ratings = EmptyColl /\ comments = EmptyColl
  /\ reports = EmptyColl /\ blobs = EmptyColl
  /\ clock = 1
  /\ req = NoRequests

NextUsers ==
  \/ \E r \in Reqs : Alone(r) /\ (createUser(r) \/ getUser(r))
  \/ \E r \in Reqs : createUser_get(r) \/ createUser_set(r)
  \/ \E r \in Reqs : getUser_get(r) \/ getUser_update(r)
  \/ Tick

\* createUser and getUser, one request at a time
SpecUsers == InitUsers /\ [][NextUsers]_vars

Ended(q) == q.pc \in {"done", "crashed"}
StoreUnchanged ==
  UNCHANGED <<users, masks, ratings, comments, reports, blobs>>
Writes(q) == {e \in q.log : e[1] \in {"set", "update", "add"}}

(***************************************************************************)
(* C1: createUser with valid googleId and name, for a googleId that has a  *)
(* user record, leaves every field of that record as it was, and is        *)
(* answered 400.                                                           *)
(***************************************************************************)
C1_ExistingUserKept ==
  [][\A r \in Reqs :
       (Steps(r) /\ req[r].op = "createUser"
          /\ req[r].a.googleId \in DOMAIN users)
       => /\ users'[req[r].a.googleId] = users[req[r].a.googleId]
          /\ (Ended(req'[r]) /\ ~req'[r].fault)
               => (Len(req'[r].sends) > 0 /\ req'[r].sends[1].status = 400)]_vars

(***************************************************************************)
(* C4: getUser with a googleId that has no user record answers 200 with an *)
(* empty object, never 404, and writes nothing to the store.               *)
(***************************************************************************)
C4_UnknownUserEmpty200 ==
  [][\A r \in Reqs :
       (Steps(r) /\ req[r].op = "getUser" /\ req[r].pc = "gu_get"
          /\ req[r].a.googleId \notin DOMAIN users /\ ~req'[r].fault)
       => /\ req'[r].pc = "done"
          /\ Len(req'[r].sends) = 1
          /\ req'[r].sends[1].status = 200
          /\ req'[r].sends[1].body = [empty |-> TRUE]
          /\ Writes(req'[r]) = {}
          /\ StoreUnchanged]_vars

C4_Witness ==
  \E r \in Reqs :
    /\ req[r].op = "getUser" /\ req[r].pc = "done"
    /\ req[r].a.googleId \in GoogleIds \ DOMAIN users
    /\ req[r].sends = <<[status |-> 200, body |-> [empty |-> TRUE]]>>

(***************************************************************************)
(* createMask and getMask, one request at a time, over any set of mask ids *)
(***************************************************************************)
InitMasks ==
  /\ users \in UserSeeds
  /\ masks \in MaskSeeds
  /\ ratings = EmptyColl /\ comments = EmptyColl
  /\ reports = EmptyColl /\ blobs = EmptyColl
  /\ clock = 1
  /\ req = NoRequests

NextMasks ==
  \/ \E r \in Reqs : Alone(r) /\ (createMask(r) \/ getMask(r))
  \/ \E r \in Reqs : createMask_user(r) \/ createMask_scan(r) \/ createMask_set(r)
  \/ \E r \in Reqs : getMask_get(r)
  \/ Tick

SpecMasks == InitMasks /\ [][NextMasks]_vars

MaskIds(coll) == {coll[k].id[2] : k \in DOMAIN coll}

(***************************************************************************)
(* C2: a successful createMask with no other createMask in flight gives    *)
(* the new mask the smallest non-negative integer that is no existing      *)
(* mask's id, stores the record under the key equal to that id and returns *)
(* that id as maskId.                                                      *)
(***************************************************************************)
C2_SmallestFreeId ==
  [][\A r \in Reqs :
       (Steps(r) /\ req[r].op = "createMask" /\ req[r].pc = "cm_set"
          /\ ~req'[r].fault)
       => LET n == req'[r].sends[1].body.maskId IN
          /\ req'[r].pc = "done"
          /\ Len(req'[r].sends) = 1 /\ req'[r].sends[1].status = 200
          /\ n \in Nat /\ n \notin MaskIds(masks)
          /\ \A j \in 0..(n - 1) : j \in MaskIds(masks)
          /\ DOMAIN masks' = DOMAIN masks \cup {Str(n)}
          /\ masks'[Str(n)].id = Num(n)
          /\ \A k \in DOMAIN masks : masks'[k] = masks[k]]_vars

\* ids {0, 1, 3} give id 2
C2_Witness ==
  \E r \in Reqs :
    /\ req[r].op = "createMask" /\ req[r].pc = "done"
    /\ req[r].sends = <<[status |-> 200, body |-> [success |-> TRUE, maskId |-> 2]]>>
    /\ MaskIds(masks) = {0, 1, 2, 3}
    /\ masks[Str(2)].uploadedOn > masks[Str(3)].uploadedOn

(***************************************************************************)
(* C10: createMask answers 404 when uploaderGoogleId names no user and 403 *)
(* when that user's canUpload is false; in both cases no mask record is    *)
(* created or modified.                                                    *)
(***************************************************************************)
C10_UploaderChecked ==
  [][\A r \in Reqs :
       (Steps(r) /\ req[r].op = "createMask" /\ req[r].pc = "cm_user"
          /\ ~req'[r].fault)
       => LET g == req[r].a.uploaderGoogleId
              refused == g \notin DOMAIN users \/ ~users[g].canUpload
          IN  /\ g \notin DOMAIN users
                   => req'[r].sends = <<[status |-> 404, body |-> Text("User not found")]>>
              /\ (g \in DOMAIN users /\ ~users[g].canUpload)
                   => (Len(req'[r].sends) = 1 /\ req'[r].sends[1].status = 403)
              /\ refused => (req'[r].pc = "done" /\ Writes(req'[r]) = {}
                             /\ StoreUnchanged)
              /\ ~refused => req'[r].sends = <<>>]_vars

C10_Witness ==
  /\ req["r1"].op = "createMask" /\ req["r1"].pc = "done"
  /\ req["r1"].sends[1].status = 404
  /\ req["r1"].a.uploaderGoogleId \notin DOMAIN users
  /\ req["r2"].op = "createMask" /\ req["r2"].pc = "done"
  /\ req["r2"].sends[1].status = 403
  /\ req["r2"].a.uploaderGoogleId \in DOMAIN users
  /\ ~users[req["r2"].a.uploaderGoogleId].canUpload
  /\ masks \in MaskSeeds

(***************************************************************************)
(* postRating and getRating, one request at a time, over the masks that    *)
(* createMask leaves                                                       *)
(***************************************************************************)
InitRatings ==
  /\ users \in {u \in UserSeeds : "u1" \in DOMAIN u}
  /\ masks \in {MasksOf(0..(n - 1)) : n \in 1..3}
  /\ ratings = EmptyColl /\ comments = EmptyColl
  /\ reports = EmptyColl /\ blobs = EmptyColl
  /\ clock = 1
  /\ req = NoRequests

postRating_step(r) ==
  \/ postRating_mask(r) \/ postRating_user(r) \/ postRating_query(r)
  \/ postRating_write(r) \/ postRating_scan(r) \/ postRating_maskupd(r)

NextRatings ==
  \/ \E r \in Reqs : Alone(r) /\ (postRating(r) \/ getRating(r))
  \/ \E r \in Reqs : postRating_step(r)
  \/ \E r \in Reqs : getRating_mask(r) \/ getRating_user(r) \/ getRating_query(r)
  \/ Tick

SpecRatings == InitRatings /\ [][NextRatings]_vars

(***************************************************************************)
(* postRating and getMasks, one request at a time                          *)
(***************************************************************************)
NextBrowse ==
  \/ \E r \in Reqs : Alone(r) /\ (postRating(r) \/ getMasks(r))
  \/ \E r \in Reqs : postRating_step(r)
  \/ \E r \in Reqs : getMasks_last(r) \/ getMasks_query(r)
  \/ Tick

SpecBrowse == InitRatings /\ [][NextBrowse]_vars

(***************************************************************************)
(* C3: two successive successful postRating calls for one (maskId,         *)
(* googleId) pair, with maskId sent as a number or as a string, leave      *)
(* exactly one rating row for the pair, holding the second rating, and the *)
(* mask's ratingsCount counts the pair once.                               *)
(***************************************************************************)
Succeeded(q, op) ==
  q.op = op /\ q.pc = "done" /\ Len(q.sends) = 1 /\ q.sends[1].status = 200

C3_OneRowPerPair ==
  LET q1 == req["r1"]
      q2 == req["r2"]
  IN  (/\ Succeeded(q1, "postRating") /\ Succeeded(q2, "postRating")
       /\ q1.a.googleId = q2.a.googleId
       /\ String(q1.a.maskId) = String(q2.a.maskId))
      => LET m == String(q2.a.maskId)
             rows == RatingsOf(ratings, m, q2.a.googleId)
         IN  /\ Cardinality(rows) = 1
             /\ \A k \in rows : ratings[k].rating = q2.a.rating
             /\ masks[m].ratingsCount =
                  Cardinality({ratings[k].googleId : k \in RatingsOfMask(ratings, m)})

(***************************************************************************)
(* C9: getMasks with a sort field outside {ratingsCount, uploadedOn,       *)
(* averageRating, maskName}, or a direction outside {asc, desc}, does not  *)
(* fail: it answers 200 with the page ordered by ratingsCount, and         *)
(* descending, in place of the invalid value.                              *)
(***************************************************************************)
C9_Field(a) == IF a.orderBy \in SortFields THEN a.orderBy ELSE "ratingsCount"
C9_Desc(a) == a.orderDirection # "asc"
\* x comes no later than y
C9_NoLater(a, x, y) ==
  IF C9_Desc(a) THEN ~FieldLess(C9_Field(a), FieldOf(x, C9_Field(a)), FieldOf(y, C9_Field(a)))
  ELSE ~FieldLess(C9_Field(a), FieldOf(y, C9_Field(a)), FieldOf(x, C9_Field(a)))

C9_InvalidSortFallsBack ==
  [][\A r \in Reqs :
       (/\ Steps(r) /\ req[r].op = "getMasks" /\ Ended(req'[r]) /\ ~req'[r].fault
        /\ req[r].a.method = "GET"
        /\ \/ req[r].a.orderBy \notin SortFields
           \/ req[r].a.orderDirection \notin SortDirections)
       => LET a == req[r].a
              page == req'[r].sends[1].body.masks
              limit == IF a.limit = Nil THEN 6 ELSE a.limit[2]
          IN  /\ req'[r].pc = "done"
              /\ Len(req'[r].sends) = 1 /\ req'[r].sends[1].status = 200
              /\ \A i \in 1..(Len(page) - 1) : C9_NoLater(a, page[i], page[i + 1])
              /\ \A i \in 1..Len(page) : page[i] \in {masks[k] : k \in DOMAIN masks}
              /\ a.lastId = Nil =>
                   /\ Len(page) = IF Cardinality(DOMAIN masks) < limit
                                  THEN Cardinality(DOMAIN masks) ELSE limit
                   /\ \A k \in DOMAIN masks : \A i \in 1..Len(page) :
                        (\A j \in 1..Len(page) : page[j] # masks[k])
                        => C9_NoLater(a, page[i], masks[k])]_vars

C9_Witness ==
  \E r \in Reqs :
    /\ Succeeded(req[r], "getMasks")
    /\ req[r].a.orderBy = "bogus" /\ req[r].a.orderDirection = "up"
    /\ Len(req[r].sends[1].body.masks) >= 2
    /\ req[r].sends[1].body.masks[1].ratingsCount
         > req[r].sends[1].body.masks[2].ratingsCount
    /\ req[r].sends[1].body.masks[1].id = Num(0)

(***************************************************************************)
(* postComment and getComments, one request at a time.  The comments at    *)
(* start are rows as the handlers' collection add() writes them: maskId,   *)
(* googleId, comment, postedOn, under generated keys.                      *)
(***************************************************************************)
SeedComment(m, t) == [maskId |-> Str(m), googleId |-> "u1", comment |-> "c",
                      postedOn |-> t]
CommentSeeds ==
  UNION {[K -> {SeedComment(m, t) : m \in 0..1, t \in 0..1}] :
           K \in {1..n : n \in 0..MaxSeedComments}}

InitComments ==
  /\ users \in {u \in UserSeeds : "u1" \in DOMAIN u}
  /\ masks \in {MasksOf(0..(n - 1)) : n \in 1..2}
  /\ comments \in CommentSeeds
  /\ ratings = EmptyColl /\ reports = EmptyColl /\ blobs = EmptyColl
  /\ clock = 1
  /\ req = NoRequests

NextComments ==
  \/ \E r \in Reqs : Alone(r) /\ (postComment(r) \/ getComments(r))
  \/ \E r \in Reqs : postComment_mask(r) \/ postComment_user(r) \/ postComment_scan(r)
  \/ \E r \in Reqs : getComments_mask(r) \/ getComments_query(r)
  \/ Tick

SpecComments == InitComments /\ [][NextComments]_vars

(***************************************************************************)
(* postReport, one request at a time                                       *)
(***************************************************************************)
InitReports ==
  /\ users \in UserSeeds
  /\ masks \in DenseMaskSeeds
  /\ ratings = EmptyColl /\ comments = EmptyColl
  /\ reports = EmptyColl /\ blobs = EmptyColl
  /\ clock = 1
  /\ req = NoRequests

NextReports ==
  \/ \E r \in Reqs : Alone(r) /\ postReport(r)
  \/ \E r \in Reqs : postReport_add(r)
  \/ Tick

SpecReports == InitReports /\ [][NextReports]_vars

(***************************************************************************)
(* One uploadFile request                                                  *)
(***************************************************************************)
InitUpload ==
  /\ users = EmptyColl /\ masks = EmptyColl /\ ratings = EmptyColl
  /\ comments = EmptyColl /\ reports = EmptyColl /\ blobs = EmptyColl
  /\ clock = 1
  /\ req = NoRequests

NextUpload ==
  \/ \E r \in Reqs : Single(r) /\ uploadFile(r)
  \/ \E r \in Reqs : \E i \in 1..MaxFiles : uploadFile_pipe(r, i)
  \/ \E r \in Reqs : uploadFile_respond(r)

SpecUpload == InitUpload /\ [][NextUpload]_vars

(***************************************************************************)
(* C5: postComment for an existing mask and an existing user with          *)
(* canComment true appends exactly one Comment row carrying that maskId,   *)
(* googleId and comment text, and answers 200 with {success: true}.        *)
(***************************************************************************)
C5_CommentAppended ==
  [][\A r \in Reqs :
       (/\ Steps(r) /\ req[r].op = "postComment"
        /\ Ended(req'[r]) /\ ~req'[r].fault
        /\ String(req[r].a.maskId) \in DOMAIN masks
        /\ req[r].a.googleId \in DOMAIN users
        /\ users[req[r].a.googleId].canComment)
       => /\ req'[r].sends = <<[status |-> 200, body |-> [success |-> TRUE]]>>
          /\ \E k \in DOMAIN comments' \ DOMAIN comments :
               /\ DOMAIN comments' = DOMAIN comments \cup {k}
               /\ comments'[k].maskId = String(req[r].a.maskId)
               /\ comments'[k].googleId = req[r].a.googleId
               /\ comments'[k].comment = req[r].a.comment
          /\ \A k \in DOMAIN comments : comments'[k] = comments[k]]_vars

(***************************************************************************)
(* C6: getComments for an existing mask returns exactly the Comment rows   *)
(* whose maskId is that mask, each row's postedOn strictly greater than    *)
(* the next row's, also when two comments carry the same clock value.      *)
(***************************************************************************)
Range(seq) == {seq[i] : i \in 1..Len(seq)}
\* the page holds the rows of the mask, each as often as the store does
C6_ExactlyTheRows(page, maskId) ==
  /\ \A i \in 1..Len(page) : page[i].maskId = maskId
  /\ \A row \in Range(page) \cup {comments[k] : k \in CommentsOfMask(comments, maskId)} :
       Cardinality({i \in 1..Len(page) : page[i] = row})
         = Cardinality({k \in CommentsOfMask(comments, maskId) : comments[k] = row})

C6_StrictlyDescending ==
  [][\A r \in Reqs :
       (Steps(r) /\ req[r].op = "getComments" /\ req[r].pc = "gc_query"
          /\ ~req'[r].fault)
       => LET page == req'[r].sends[1].body.comments IN
          /\ req'[r].pc = "done"
          /\ Len(req'[r].sends) = 1 /\ req'[r].sends[1].status = 200
          /\ C6_ExactlyTheRows(page, req[r].a.maskId)
          /\ \A i \in 1..(Len(page) - 1) : page[i].postedOn > page[i + 1].postedOn]_vars

\* C6 as amended: each row's postedOn is greater than or equal to the next
\* row's; comments of one clock value follow one another.
C6_Descending ==
  [][\A r \in Reqs :
       (Steps(r) /\ req[r].op = "getComments" /\ req[r].pc = "gc_query"
          /\ ~req'[r].fault)
       => LET page == req'[r].sends[1].body.comments IN
          /\ req'[r].pc = "done"
          /\ Len(req'[r].sends) = 1 /\ req'[r].sends[1].status = 200
          /\ C6_ExactlyTheRows(page, req[r].a.maskId)
          /\ \A i \in 1..(Len(page) - 1) : page[i].postedOn >= page[i + 1].postedOn]_vars

C6_Witness ==
  \E r \in Reqs :
    /\ Succeeded(req[r], "getComments")
    /\ Len(req[r].sends[1].body.comments) = 2
    /\ req[r].sends[1].body.comments[1].postedOn
         = req[r].sends[1].body.comments[2].postedOn
    /\ req[r].a.maskId \in DOMAIN masks

(***************************************************************************)
(* C7: postReport with its four required fields non-empty never fails over *)
(* the reported item or the reporter: with the store available it appends  *)
(* one Report row and answers 200 for any reportedItemId, and it reads     *)
(* neither masks, comments nor users.                                      *)
(***************************************************************************)
C7_Complete(a) ==
  /\ a.method = "POST" /\ a.reportedItemType # "" /\ ~IsEmpty(a.reportedItemId)
  /\ a.reporterGoogleId # "" /\ a.reason # ""

C7_ReportAlwaysAccepted ==
  [][\A r \in Reqs :
       (/\ Steps(r) /\ req'[r].op = "postReport" /\ C7_Complete(req'[r].a)
        /\ ~req'[r].fault)
       => /\ req'[r].log = {<<"add", "reports">>}
          /\ Ended(req'[r]) =>
               /\ req'[r].sends = <<[status |-> 200, body |-> [success |-> TRUE]]>>
               /\ \E k \in DOMAIN reports' \ DOMAIN reports :
                    /\ DOMAIN reports' = DOMAIN reports \cup {k}
                    /\ reports'[k].reportedItemId = req[r].a.reportedItemId
                    /\ reports'[k].reportedItemType = req[r].a.reportedItemType
                    /\ reports'[k].reporterGoogleId = req[r].a.reporterGoogleId
                    /\ reports'[k].reason = req[r].a.reason
               /\ \A k \in DOMAIN reports : reports'[k] = reports[k]
               /\ UNCHANGED <<users, masks, comments, ratings>>]_vars

\* a report on a mask that does not exist, by a reporter that does not exist
C7_Witness ==
  \E r \in Reqs :
    /\ Succeeded(req[r], "postReport")
    /\ req[r].a.reportedItemType = "mask"
    /\ String(req[r].a.reportedItemId) \notin DOMAIN masks
    /\ req[r].a.reporterGoogleId \notin DOMAIN users
    /\ \E k \in DOMAIN reports : reports[k].reportedItemId = req[r].a.reportedItemId

(***************************************************************************)
(* C8: uploadFile answers a request with a file part larger than the size  *)
(* limit (100 MiB) with 413, never with 200 (every other upload failure is *)
(* answered 500).                                                          *)
(***************************************************************************)
C8_Oversized(q) == \E i \in 1..Len(q.a.files) : q.a.files[i] > 100 * 1024 * 1024

C8_OversizedRejected ==
  \A r \in Reqs :
    (/\ req[r].op = "uploadFile" /\ req[r].a.method = "POST"
     /\ ~req[r].a.malformed /\ req[r].pc = "done"
     /\ ~req[r].fault /\ C8_Oversized(req[r]))
    => req[r].sends[1].status = 413

(***************************************************************************)
(* postRating and postComment, one request at a time                       *)
(***************************************************************************)
NextPosts ==
  \/ \E r \in Reqs : Alone(r) /\ (postRating(r) \/ postComment(r))
  \/ \E r \in Reqs : postRating_step(r)
  \/ \E r \in Reqs : postComment_mask(r) \/ postComment_user(r) \/ postComment_scan(r)
  \/ Tick

SpecPosts == InitRatings /\ [][NextPosts]_vars

(***************************************************************************)
(* C11: postRating and postComment by an existing user whose canComment is *)
(* false answer 403 and write nothing: ratings, comments and masks stay as *)
(* they are, no row is written and no aggregate is recomputed.             *)
(***************************************************************************)
C11_Refused(q) ==
  /\ q.op \in {"postRating", "postComment"}
  /\ q.a.googleId \in DOMAIN users
  /\ ~users[q.a.googleId].canComment

C11_NoCommentPermission ==
  [][\A r \in Reqs :
       (Steps(r) /\ C11_Refused(req[r]) /\ ~req'[r].fault)
       => /\ StoreUnchanged
          /\ Writes(req'[r]) = {}
          /\ <<"query", "ratings">> \notin req'[r].log
          /\ req'[r].pc \in {"pr_user", "pc_user", "done"}
          /\ req[r].pc \in {"pr_user", "pc_user"}
               => /\ req'[r].pc = "done"
                  /\ Len(req'[r].sends) = 1 /\ req'[r].sends[1].status = 403]_vars

C11_Witness ==
  /\ req["r1"].op = "postRating" /\ req["r2"].op = "postComment"
  /\ \A r \in Reqs :
       /\ req[r].pc = "done" /\ C11_Refused(req[r])
       /\ Len(req[r].sends) = 1 /\ req[r].sends[1].status = 403
       /\ String(req[r].a.maskId) \in DOMAIN masks
  /\ ratings = EmptyColl /\ comments = EmptyColl

(***************************************************************************)
(* One request to any of the eleven handlers                               *)
(***************************************************************************)
Init ==
  /\ users \in {u \in UserSeeds : DOMAIN u = GoogleIds}
  /\ masks = MasksOf(0..1)
  /\ comments \in {c \in CommentSeeds : DOMAIN c = {1} /\ c[1].postedOn = 0}
  /\ ratings = EmptyColl /\ reports = EmptyColl /\ blobs = EmptyColl
  /\ clock = 1
  /\ req = NoRequests

Next ==
  \/ \E r \in Reqs : Single(r) /\ (createUser(r) \/ getUser(r) \/ uploadFile(r))
  \/ \E r \in Reqs : Single(r) /\ (createMask(r) \/ getMask(r) \/ getMasks(r))
  \/ \E r \in Reqs : Single(r) /\ (postRating(r) \/ getRating(r))
  \/ \E r \in Reqs : Single(r) /\ (postComment(r) \/ getComments(r) \/ postReport(r))
  \/ \E r \in Reqs : createUser_get(r) \/ createUser_set(r)
  \/ \E r \in Reqs : getUser_get(r) \/ getUser_update(r)
  \/ \E r \in Reqs : \E i \in 1..MaxFiles : uploadFile_pipe(r, i)
  \/ \E r \in Reqs : uploadFile_respond(r)
  \/ \E r \in Reqs : createMask_user(r) \/ createMask_scan(r) \/ createMask_set(r)
  \/ \E r \in Reqs : getMask_get(r)
  \/ \E r \in Reqs : getMasks_last(r) \/ getMasks_query(r)
  \/ \E r \in Reqs : postRating_step(r)
  \/ \E r \in Reqs : getRating_mask(r) \/ getRating_user(r) \/ getRating_query(r)
  \/ \E r \in Reqs : postComment_mask(r) \/ postComment_user(r) \/ postComment_scan(r)
  \/ \E r \in Reqs : getComments_mask(r) \/ getComments_query(r)
  \/ \E r \in Reqs : postReport_add(r)
  \/ Tick

Spec == Init /\ [][Next]_vars

(***************************************************************************)
(* C12: every handler invoked with an HTTP method other than its declared  *)
(* one answers 405 and performs no read or write on the Document Store or  *)
(* the Blob Store.                                                         *)
(***************************************************************************)
C12_Declared(op) ==
  IF op \in {"getUser", "getMask", "getMasks", "getRating", "getComments"}
  THEN "GET" ELSE "POST"

C12_WrongMethod(q) == q.op # "none" /\ q.a.method # C12_Declared(q.op)

C12_WrongMethod405 ==
  [][\A r \in Reqs :
       /\ (Steps(r) /\ req[r].pc = "idle" /\ C12_WrongMethod(req'[r]))
            => /\ req'[r].pc = "done"
               /\ req'[r].sends = <<[status |-> 405, body |-> Text("Method not allowed")]>>
               /\ req'[r].log = {}
               /\ StoreUnchanged
       /\ (req[r].pc # "idle" /\ C12_WrongMethod(req[r])) => req'[r] = req[r]]_vars

\* a getMasks sent with POST over a store that holds masks
C12_Witness ==
  \E r \in Reqs :
    /\ req[r].op = "getMasks" /\ req[r].a.method = "POST"
    /\ req[r].pc = "done" /\ req[r].log = {}
    /\ Len(req[r].sends) = 1 /\ req[r].sends[1].status = 405
    /\ masks # EmptyColl

(***************************************************************************)
(* C13: in every handler, a Document Store call that fails during a        *)
(* request that passed validation is caught by the handler and answered    *)
(* 500; no store failure leaves a request without a response.              *)
(***************************************************************************)
C13_StoreFailureAnswered500 ==
  \A r \in Reqs :
    (req[r].fault /\ Ended(req[r]))
    => /\ req[r].pc = "done"
       /\ Len(req[r].sends) > 0
       /\ req[r].sends[Len(req[r].sends)].status = 500

(***************************************************************************)
(* C14: getRating(maskId, googleId) answers 404 exactly when the mask does *)
(* not exist, the user does not exist, or no rating row exists for the     *)
(* pair; otherwise it answers 200 with a rating row whose maskId and       *)
(* googleId are those of the request; it never writes to the store.        *)
(***************************************************************************)
C14_Absent(a) ==
  \/ a.maskId \notin DOMAIN masks
  \/ a.googleId \notin DOMAIN users
  \/ ~\E k \in DOMAIN ratings :
        ratings[k].maskId = a.maskId /\ ratings[k].googleId = a.googleId

C14_RatingOr404 ==
  [][\A r \in Reqs :
       (Steps(r) /\ req[r].op = "getRating")
       => /\ StoreUnchanged
          /\ Writes(req'[r]) = {}
          /\ (Ended(req'[r]) /\ ~req'[r].fault)
               => /\ Len(req'[r].sends) = 1
                  /\ req'[r].sends[1].status \in {200, 404}
                  /\ req'[r].sends[1].status = 404 <=> C14_Absent(req[r].a)
                  /\ req'[r].sends[1].status = 200
                       => /\ req'[r].sends[1].body.rating \in
                               {ratings[k] : k \in DOMAIN ratings}
                          /\ req'[r].sends[1].body.rating.maskId = req[r].a.maskId
                          /\ req'[r].sends[1].body.rating.googleId = req[r].a.googleId]_vars

\* u2 asks for its rating of a mask that only u1 has rated, then for u1's
C14_Witness ==
  /\ req["r2"].op = "getRating" /\ req["r2"].pc = "done"
  /\ req["r2"].sends = <<[status |-> 404, body |-> Text("Rating not found")]>>
  /\ req["r2"].a.googleId = "u2"
  /\ \E k \in DOMAIN ratings :
       ratings[k].maskId = req["r2"].a.maskId /\ ratings[k].googleId = "u1"

(***************************************************************************)
(* C15: createMask answers 400 and writes nothing whenever any of maskUrl, *)
(* name, images or uploaderGoogleId is missing or empty, an empty images   *)
(* list counting as empty.                                                 *)
(***************************************************************************)
C15_Incomplete(a) ==
  \/ a.maskUrl = "" \/ a.name = "" \/ a.uploaderGoogleId = ""
  \/ a.images \in {"", "[]"}

C15_EmptyFieldRefused ==
  [][\A r \in Reqs :
       (/\ Steps(r) /\ req'[r].op = "createMask" /\ req'[r].a.method = "POST"
        /\ C15_Incomplete(req'[r].a))
       => /\ StoreUnchanged
          /\ Writes(req'[r]) = {}
          /\ req[r].pc = "idle"
               => /\ req'[r].pc = "done"
                  /\ Len(req'[r].sends) = 1 /\ req'[r].sends[1].status = 400]_vars

(***************************************************************************)
(* C16: uploadFile sends 200 only after the pipeline of every file part    *)
(* (temporary file, blob upload, make public, URL) has completed, with one *)
(* entry per file part in its files list; when a pipeline has failed the   *)
(* request is answered with an error status, never with 200.               *)
(***************************************************************************)
C16_Parsed(q) == q.op = "uploadFile" /\ q.a.method = "POST" /\ ~q.a.malformed

C16_AllPipelinesFirst ==
  \A r \in Reqs :
    (C16_Parsed(req[r]) /\ Answered(r))
    => LET n == Len(req[r].a.files) IN
       /\ Len(req[r].sends) = 1
       /\ Answer(r).status = 200
            => /\ \A i \in 1..n : req[r].l.stage[i] = "ok"
               /\ \A i \in 1..n : <<r, i>> \in DOMAIN blobs /\ blobs[<<r, i>>].public
               /\ Len(Answer(r).body.files) = n
               /\ \A i, j \in 1..n :
                    i # j => Answer(r).body.files[i] # Answer(r).body.files[j]
       /\ (\E i \in 1..n : req[r].l.stage[i] = "failed")
            => Answer(r).status \in {413, 500}

\* an upload of two parts answered 500: the second part failed although the
\* first one completed
C16_Witness ==
  \E r \in Reqs :
    /\ C16_Parsed(req[r]) /\ Len(req[r].a.files) = 2
    /\ req[r].l.stage = <<"ok", "failed">>
    /\ blobs[<<r, 1>>].public
    /\ Len(req[r].sends) = 1 /\ req[r].sends[1].status = 500

(***************************************************************************)
(* postRating requests that run concurrently, interleaved at their store   *)
(* round trips                                                             *)
(***************************************************************************)
InitRace ==
  /\ users \in {u \in UserSeeds : DOMAIN u = GoogleIds /\ u["u2"].canComment}
  /\ masks = MasksOf(0..0)
  /\ ratings = EmptyColl /\ comments = EmptyColl
  /\ reports = EmptyColl /\ blobs = EmptyColl
  /\ clock = 1
  /\ req = NoRequests

NextRace ==
  \/ \E r \in Reqs : postRating(r)
  \/ \E r \in Reqs : postRating_step(r)
  \/ Tick

SpecRace == InitRace /\ [][NextRace]_vars

(***************************************************************************)
(* C17: in every reachable state, under any interleaving of postRating     *)
(* requests (two concurrent requests for one pair included), the ratings   *)
(* collection holds at most one row per (maskId, googleId) pair.           *)
(***************************************************************************)
C17_AtMostOneRowPerPair ==
  \A j, k \in DOMAIN ratings :
    (ratings[j].maskId = ratings[k].maskId
       /\ ratings[j].googleId = ratings[k].googleId) => j = k

(***************************************************************************)
(* C18: when a postRating with a numeric rating completes successfully     *)
(* with no other postRating for the mask in flight, the mask record's      *)
(* ratingsCount is the number of rating rows whose maskId is that mask,    *)
(* and its averageRating is the sum of their ratings divided by that       *)
(* number.                                                                 *)
(***************************************************************************)
C18_Rows(m) == {k \in DOMAIN ratings : ratings[k].maskId = m}

RECURSIVE C18_Sum(_)
C18_Sum(S) ==
  IF S = {} THEN 0
  ELSE LET k == CHOOSE x \in S : TRUE IN ratings[k].rating[2] + C18_Sum(S \ {k})

C19_AggregateCarriesOwnScan ==
  [][/\ \A r \in Reqs :
          (Steps(r) /\ req[r].op = "postRating" /\ ~req'[r].fault)
          => LET m == String(req[r].a.maskId) IN
             /\ req[r].pc = "pr_scan"
                  => /\ req'[r].l.ratingCount = Cardinality(C18_Rows(m))
                     /\ req'[r].l.averageRating
                          = Divide(C18_Sum(C18_Rows(m)), Cardinality(C18_Rows(m)))
                     /\ masks' = masks
             /\ req[r].pc = "pr_maskupd"
                  => /\ masks'[m].ratingsCount = req[r].l.ratingCount
                     /\ masks'[m].averageRating = req[r].l.averageRating
                     /\ req'[r].sends = <<[status |-> 200, body |-> [success |-> TRUE]]>>
     /\ (\A r \in Reqs : Ended(req[r])) => UNCHANGED <<masks, ratings>>]_vars

\* both requests answered 200, two rows for the mask, and a count of one
C19_Witness ==
  /\ \A r \in Reqs : Succeeded(req[r], "postRating") /\ req[r].a.maskId = Str(0)
  /\ req["r1"].a.googleId # req["r2"].a.googleId
  /\ Cardinality(C18_Rows(Str(0))) = 2
  /\ masks[Str(0)].ratingsCount = 1
  /\ masks[Str(0)].averageRating # Divide(C18_Sum(C18_Rows(Str(0))), 2)

(***************************************************************************)
(* createMask requests that run concurrently, over the masks that          *)
(* createMask leaves                                                       *)
(***************************************************************************)
InitCreate ==
  /\ users \in UserSeeds
  /\ masks \in DenseMaskSeeds
  /\ ratings = EmptyColl /\ comments = EmptyColl
  /\ reports = EmptyColl /\ blobs = EmptyColl
  /\ clock = 1
  /\ req = NoRequests

NextCreate ==
  \/ \E r \in Reqs : createMask(r)
  \/ \E r \in Reqs : createMask_user(r) \/ createMask_scan(r) \/ createMask_set(r)
  \/ Tick

SpecCreate == InitCreate /\ [][NextCreate]_vars

(***************************************************************************)
(* C20: whenever no createMask request is in flight, the ids of the stored *)
(* masks are exactly 0, 1, ..., n-1 for n stored masks, and each mask is   *)
(* stored under the key equal to its id.                                   *)
(***************************************************************************)
C20_DenseIds ==
  (\A r \in Reqs : req[r].op = "createMask" => Quiet(r))
  => /\ MaskIds(masks) = 0..(Cardinality(DOMAIN masks) - 1)
     /\ \A k \in DOMAIN masks : k = String(masks[k].id)

\* two concurrent requests that scanned the same ids: both were given id 0,
\* the second record replaced the first
C20_Witness ==
  /\ \A r \in Reqs : Succeeded(req[r], "createMask")
                     /\ req[r].sends[1].body.maskId = 0
  /\ req["r1"].a.name # req["r2"].a.name
  /\ DOMAIN masks = {Str(0)}

(***************************************************************************)
(* createUser requests that run concurrently, interleaved at their store   *)
(* round trips                                                             *)
(***************************************************************************)
NextSignup ==
  \/ \E r \in Reqs : createUser(r)
  \/ \E r \in Reqs : createUser_get(r) \/ createUser_set(r)
  \/ Tick

SpecSignup == InitUsers /\ [][NextSignup]_vars

(***************************************************************************)
(* C21: two concurrent createUser requests with one googleId that has no   *)
(* record can both pass the existence check, both write the user record    *)
(* and both be answered 200, the later write replacing the earlier record: *)
(* the check answers from the store as it is when it reads, and the write  *)
(* stores the request's record whatever the store holds by then.           *)
(***************************************************************************)
C21_CheckAndWriteApart ==
  [][\A r \in Reqs :
       (Steps(r) /\ req[r].op = "createUser" /\ ~req'[r].fault)
       => LET g == req[r].a.googleId IN
          /\ (req[r].pc = "cu_get" /\ req'[r].pc = "cu_set")
               => /\ req'[r].l.exists <=> g \in DOMAIN users
                  /\ users' = users
          /\ req[r].pc = "cu_set"
               => /\ g \in DOMAIN users'
                  /\ users'[g].name = req[r].a.name
                  /\ users'[g].creationDate = req[r].l.now
                  /\ ~req[r].l.exists
                       => req'[r].sends = <<[status |-> 200, body |-> Text("User created")]>>]_vars

\* both requests found no record and were answered 200; the record is the
\* one of the later write
C21_Witness ==
  /\ \A r \in Reqs : /\ Succeeded(req[r], "createUser")
                     /\ req[r].a.googleId = "u2" /\ ~req[r].l.exists
  /\ req["r1"].a.name = "A" /\ req["r2"].a.name = "B"
  /\ users["u2"].name = "A"

C23_OnlyLastAccess ==
  [][\A r \in Reqs :
       (/\ Steps(r) /\ req[r].op = "getUser"
        /\ req[r].a.googleId \in DOMAIN users /\ ~req'[r].fault)
       => LET g == req[r].a.googleId IN
          /\ UNCHANGED <<masks, ratings, comments, reports, blobs>>
          /\ DOMAIN users' = DOMAIN users
          /\ \A o \in DOMAIN users \ {g} : users'[o] = users[o]
          /\ [users'[g] EXCEPT !.lastAccess = users[g].lastAccess] = users[g]
          /\ req[r].pc = "gu_get" => users' = users /\ req'[r].sends = <<>>
          /\ req[r].pc = "gu_update"
               => /\ users'[g].lastAccess = req[r].l.now
                  /\ req'[r].pc = "done"
                  /\ req'[r].sends = <<[status |-> 200, body |-> [user |-> users[g]]]>>]_vars

\* the user of the start, read at a later time
C23_Witness ==
  \E r \in Reqs :
    /\ Succeeded(req[r], "getUser")
    /\ req[r].a.googleId = "u2" /\ "u2" \in DOMAIN users
    /\ users["u2"].lastAccess = 2 /\ users["u2"].creationDate = 0
    /\ "user" \in DOMAIN req[r].sends[1].body
    /\ req[r].sends[1].body.user.id = "u2"
    /\ ~users["u2"].canUpload

(***************************************************************************)
(* C24: postComment never changes the masks, ratings, users or reports     *)
(* collections: whatever its outcome, the mask's averageRating and         *)
(* ratingsCount and every other document that is no comment are the same   *)
(* after the call as before.                                               *)
(***************************************************************************)
C24_OnlyComments ==
  [][\A r \in Reqs :
       (Steps(r) /\ req'[r].op = "postComment")
       => /\ UNCHANGED <<masks, ratings, users, reports, blobs>>
          /\ \A e \in Writes(req'[r]) : e[2] = "comments"]_vars

\* a postComment that passed the mask and user checks and ran to its end
C24_Witness ==
  \E r \in Reqs :
    /\ req[r].op = "postComment" /\ req[r].pc = "done"
    /\ <<"query", "comments">> \in req[r].log
    /\ ~req[r].fault
    /\ masks[String(req[r].a.maskId)].ratingsCount = 0
    /\ users[req[r].a.googleId].canComment

(***************************************************************************)
(* C25: every request to every handler is answered at most once: on no     *)
(* path does a handler send a second status and body after it has sent a   *)
(* response (createUser on an existing googleId included).                 *)
(***************************************************************************)
C25_AnsweredAtMostOnce == \A r \in Reqs : Len(req[r].sends) <= 1

(***************************************************************************)
(* C26: under any interleaving of createMask requests, every createMask    *)
(* answered 200 returns a maskId different from the one returned to every  *)
(* other successful createMask, and the record it wrote is never replaced  *)
(* by another createMask: it stays the record getMask returns for its id.  *)
(***************************************************************************)
C26_Wrote(q) == MaskDoc(q.l.nextId, q.a.maskUrl, q.a.name, q.a.images,
                        q.a.uploaderGoogleId, q.l.now)

C26_DistinctIdsKept ==
  \A r \in Reqs :
    Succeeded(req[r], "createMask")
    => /\ \A o \in Reqs \ {r} :
            Succeeded(req[o], "createMask")
            => req[o].sends[1].body.maskId # req[r].sends[1].body.maskId
       /\ masks[Str(req[r].sends[1].body.maskId)] = C26_Wrote(req[r])

(***************************************************************************)
(* A postRating, then a getRating, over a store in which u1 has rated mask *)
(* 0 before: the row and the aggregate are those an earlier postRating     *)
(* with a maskId sent as a string has left                                 *)
(***************************************************************************)
InitRated ==
  /\ users \in {u \in UserSeeds : DOMAIN u = GoogleIds}
  /\ ratings \in {[k \in {key} |-> [maskId |-> Str(0), googleId |-> "u1",
                                     rating |-> Num(v), postedOn |-> 0]] :
                      key \in AutoKeys, v \in RatingValues}
  /\ masks = [MasksOf(0..1) EXCEPT
                ![Str(0)].ratingsCount = 1,
                ![Str(0)].averageRating =
                   Divide(SumRatings(ratings, DOMAIN ratings), 1)]
  /\ comments = EmptyColl /\ reports = EmptyColl /\ blobs = EmptyColl
  /\ clock = 1
  /\ req = NoRequests

SpecRated == InitRated /\ [][NextRatings]_vars

(***************************************************************************)
(* C27: after a sequence of successful postRating calls for one (maskId,   *)
(* googleId) pair, with maskId sent in any representation the handler      *)
(* accepts, a following getRating for the pair returns the rating value of *)
(* the last postRating of the sequence.                                    *)
(***************************************************************************)
C27_LastRatingRead ==
  LET p == req["r1"]
      g == req["r2"]
  IN  (/\ Succeeded(p, "postRating")
       /\ g.op = "getRating" /\ g.pc = "done" /\ ~g.fault
       /\ g.a.method = "GET"
       /\ g.a.googleId = p.a.googleId /\ g.a.maskId = String(p.a.maskId)
       /\ p.a.googleId = "u1" /\ p.a.maskId \in {Num(0), Str(0)})
      => /\ Len(g.sends) = 1 /\ g.sends[1].status = 200
         /\ g.sends[1].body.rating.rating = p.a.rating

(***************************************************************************)
(* C28: when postRating is answered 500 because a store call failed, the   *)
(* store is as it was before the request: in no execution has the rating   *)
(* row been inserted or updated while the mask's averageRating and         *)
(* ratingsCount were not rewritten.                                        *)
(***************************************************************************)
C28_NoRowWithoutAggregate ==
  \A r \in Reqs :
    (/\ req[r].op = "postRating" /\ req[r].pc = "done" /\ req[r].fault
     /\ Len(req[r].sends) = 1 /\ req[r].sends[1].status = 500
     /\ String(req[r].a.maskId) \in DOMAIN masks)
    => LET m == String(req[r].a.maskId) IN
       /\ masks[m].ratingsCount = Cardinality(C18_Rows(m))
       /\ masks[m].averageRating[1] * Cardinality(C18_Rows(m))
            = C18_Sum(C18_Rows(m)) * masks[m].averageRating[2]

(***************************************************************************)
(* A client that pages through the masks: a first getMasks without cursor, *)
(* then one getMasks per page with the lastId of the response before, its  *)
(* other parameters fixed; the responses of the walk are kept in order.    *)
(* No request writes to masks.                                             *)
(***************************************************************************)
\* a mask as createMask and later postRating calls leave it
RatedMask(n, c) ==
  [SeedMask(n) EXCEPT !.ratingsCount = c,
                      !.averageRating = IF c = 0 THEN Zero
                                        ELSE IF c = 1 THEN <<5, 1>> ELSE <<4, 1>>]
PageSeeds ==
  UNION {{[k \in {Str(i) : i \in 0..(n - 1)} |-> RatedMask(k[2], c[k[2]])] :
            c \in [0..(n - 1) -> 0..2]} : n \in 0..MaxSeedMaskId}

InitPages ==
  /\ users = EmptyColl /\ ratings = EmptyColl /\ comments = EmptyColl
  /\ reports = EmptyColl /\ blobs = EmptyColl
  /\ masks \in PageSeeds
  /\ clock = 1
  /\ req = NoRequests

getMasks_first(r) ==
  /\ Single(r) /\ CanStart(r)
  /\ \E a \in [method : {"GET"}, limit : {Str(1), Str(2)},
               orderBy : SortFields, orderDirection : SortDirections,
               lastId : {Nil}] :
       req' = [req EXCEPT ![r] = getMasks_validate(NewReq("getMasks", a))]
  /\ UNCHANGED <<users, masks, ratings, comments, reports, blobs, clock>>

\* the next request of the walk: the same query, lastId taken from the
\* response; the walk ends at the response whose lastId is null
getMasks_next(r) ==
  /\ req[r].op = "getMasks" /\ req[r].pc = "done" /\ ~req[r].fault
  /\ req[r].sends[Len(req[r].sends)].body.lastId # Nil
  /\ req' = [req EXCEPT ![r] = getMasks_validate(
               [@ EXCEPT !.a.lastId = req[r].sends[Len(req[r].sends)].body.lastId])]
  /\ UNCHANGED <<users, masks, ratings, comments, reports, blobs, clock>>

NextPages ==
  \/ \E r \in Reqs : getMasks_first(r) \/ getMasks_next(r)
  \/ \E r \in Reqs : getMasks_last(r) \/ getMasks_query(r)

SpecPages == InitPages /\ [][NextPages]_vars

(***************************************************************************)
(* C29: with no write to masks in between, calling getMasks again and      *)
(* again with a fixed limit, sort field and sort direction, each time with *)
(* the lastId of the response before as the cursor, until an empty page    *)
(* comes back, yields every stored mask exactly once, in the requested     *)
(* order, and no page longer than limit.                                   *)
(***************************************************************************)
RECURSIVE C29_Walk(_, _)
\* the pages of the first n responses, one after the other
C29_Walk(sends, n) ==
  IF n = 0 THEN <<>> ELSE C29_Walk(sends, n - 1) \o sends[n].body.masks

C29_Ended(q) ==
  /\ q.op = "getMasks" /\ q.pc = "done" /\ ~q.fault
  /\ q.sends[Len(q.sends)].body.masks = <<>>

C29_EveryMaskOnce ==
  \A r \in Reqs :
    C29_Ended(req[r])
    => LET q == req[r]
           all == C29_Walk(q.sends, Len(q.sends))
       IN  /\ \A i \in 1..Len(q.sends) :
                /\ q.sends[i].status = 200
                /\ Len(q.sends[i].body.masks) <= q.a.limit[2]
           /\ \A k \in DOMAIN masks :
                Cardinality({j \in 1..Len(all) : all[j] = masks[k]}) = 1
           /\ Len(all) = Cardinality(DOMAIN masks)
           /\ \A j \in 1..(Len(all) - 1) : C9_NoLater(q.a, all[j], all[j + 1])

\* three masks of one ratingsCount, walked by ratingsCount in pages of two:
\* the masks of equal value lie on both sides of the page boundary
C29_Witness ==
  \E r \in Reqs :
    /\ C29_Ended(req[r])
    /\ req[r].a.limit = Str(2) /\ req[r].a.orderBy = "ratingsCount"
    /\ Len(req[r].sends) = 3
    /\ Len(req[r].sends[1].body.masks) = 2 /\ Len(req[r].sends[2].body.masks) = 1
    /\ DOMAIN masks = {Str(0), Str(1), Str(2)}
    /\ \A k \in DOMAIN masks : masks[k].ratingsCount = 1

====
